---- MODULE Spec2Model ----
(***************************************************************************)
(* Model of the two example scripts of pg-age-digitaltwins:                *)
(*   docs/examples/copy_adt.py         (the migrator)                      *)
(*   docs/examples/export_to_jsonld.py (the exporter)                      *)
(* Both read one source Digital Twins instance through lazy pagers.  The   *)
(* migrator pushes what it reads to a target instance; the exporter        *)
(* writes it to export.jsonld.  The scripts share no mutable state, so a   *)
(* behaviour runs one of them (the exporter possibly a second time).       *)
(***************************************************************************)
EXTENDS Integers, Sequences, FiniteSets, TLC

\* Largest number of models, twins and relationships held by the source.
MaxModels == 2
MaxTwins == 2
MaxRels == 2

VARIABLES
    src,        \* content of the source instance (unchanged by both scripts)
    \* ---- copy_adt.py
    mpc,        \* position of the migrator
    models,     \* the list `models`
    mrem,       \* items the pager being iterated has not yielded yet
    mcur,       \* loop variable `twin` / `rel`
    calls,      \* service calls made so far, in order, with their results
    log,        \* lines printed so far
    merr,       \* the exception that ended the run, and where it was raised
    morder,     \* items the pagers yielded to this run, per category, in order
    \* ---- export_to_jsonld.py
    epc,        \* position of the exporter
    erem,       \* items the pager being iterated has not yielded yet
    ecur,       \* loop variable `model` / `twin` / `rel`
    file,       \* lines of export.jsonld on disk
    isOpen,     \* whether the file object f is open
    opens,      \* number of open() calls of this run
    closes,     \* number of close() calls of this run
    eorder,     \* items yielded to this run, per category, in order
    rerun,      \* whether this is a second run of the exporter
    prevDone,   \* whether the previous run completed normally
    prevOutput, \* export.jsonld as the previous complete run left it
    prevOrder   \* eorder of the previous complete run

migVars == <<mpc, models, mrem, mcur, calls, log, merr, morder>>
expVars == <<epc, erem, ecur, file, isOpen, opens, closes, eorder,
             rerun, prevDone, prevOutput, prevOrder>>
vars == <<src, mpc, models, mrem, mcur, calls, log, merr, morder,
          epc, erem, ecur, file, isOpen, opens, closes, eorder,
          rerun, prevDone, prevOutput, prevOrder>>

----------------------------------------------------------------------------
\* The source instance

\* An item of list_models(include_model_definition=True): .model is the
\* definition document.
ModelData(i) == [id |-> i, model |-> [dtmi |-> i]]

\* A row of "SELECT * FROM digitaltwins".
Twin(i) == [dtId |-> i, metadata |-> "twin"]

\* A row of "SELECT * FROM relationships" between two twins of 1..nt.
Rel(i, nt) ==
    [sourceId |-> ((i - 1) % nt) + 1,
     targetId |-> (i % nt) + 1,
     relationshipId |-> 100 + i]

Source(nm, nt, nr) ==
    [models |-> {ModelData(i) : i \in 1..nm},
     twins  |-> {Twin(i) : i \in 1..nt},
     rels   |-> {Rel(i, nt) : i \in 1..nr}]

\* The exceptions a service call or a pager can raise.
ErrKinds == {"HttpResponseError", "OtherError"}

NoItem == [none |-> TRUE]
NoErr == [kind |-> "none", at |-> "none"]
EmptyOrder == [models |-> <<>>, twins |-> <<>>, rels |-> <<>>]

----------------------------------------------------------------------------
\* copy_adt.py

\* `except HttpResponseError as e:` around the whole script.
OuterExcept(k) == k = "HttpResponseError"

\* `except HttpResponseError as e:` around one upsert.
ItemExcept(k) == k = "HttpResponseError"

Call(svc, op, key, arg) ==
    [svc |-> svc, op |-> op, key |-> key, arg |-> arg, result |-> "pending"]

Returned(cs, r) == [cs EXCEPT ![Len(cs)].result = r]

SourceCall(op, arg) == [Call("source", op, <<>>, arg) EXCEPT !.result = "ok"]

\* An exception leaves the try block: the script prints it if the outer
\* handler matches and ends; otherwise it ends with the exception unhandled.
MigAbort(k, at, cs) ==
    /\ mpc' = IF OuterExcept(k) THEN "caught" ELSE "unhandled"
    /\ log' = IF OuterExcept(k)
                THEN Append(log, <<"This script has caught an error">>)
                ELSE log
    /\ merr' = [kind |-> k, at |-> at]
    /\ calls' = cs

\* models_query_result = source_service_client.list_models(...); models = []
MigListModels ==
    /\ mpc = "start"
    /\ calls' = Append(calls, SourceCall("list_models", "include_model_definition"))
    /\ mrem' = src.models
    /\ models' = <<>>
    /\ mpc' = "models_next"
    /\ UNCHANGED <<mcur, log, merr, morder>>

\* models.append(modeldata.model)
AppendModel(ms, modeldata) == Append(ms, modeldata.model)

\* Mutant: each model is pushed on its own as soon as it is yielded.
mutMigModelsYield ==
    /\ mpc = "models_next"
    /\ \E modeldata \in mrem :
        /\ mrem' = mrem \ {modeldata}
        /\ models' = AppendModel(models, modeldata)
        /\ morder' = [morder EXCEPT !.models = Append(@, modeldata)]
        /\ calls' = Append(calls, [Call("target", "create_models", <<>>,
                                        <<modeldata.model>>) EXCEPT !.result = "ok"])
    /\ UNCHANGED <<mpc, mcur, log, merr>>

\* for modeldata in models_query_result: the pager yields an item
MigModelsYield ==
    /\ mpc = "models_next"
    /\ \E modeldata \in mrem :
        /\ mrem' = mrem \ {modeldata}
        /\ models' = AppendModel(models, modeldata)
        /\ morder' = [morder EXCEPT !.models = Append(@, modeldata)]
    /\ UNCHANGED <<mpc, mcur, calls, log, merr>>

\* the pager raises
MigModelsFail ==
    /\ mpc = "models_next"
    /\ \E k \in ErrKinds : MigAbort(k, "list_models", calls)
    /\ UNCHANGED <<models, mrem, mcur, morder>>

\* Mutant: create_models is skipped when there is no model.
mutMigModelsDoneSkipEmpty ==
    /\ mpc = "models_next"
    /\ mrem = {}
    /\ log' = Append(log, <<"Pushing models", Len(models)>>)
    /\ IF models = <<>>
         THEN /\ calls' = Append(calls, SourceCall("query_twins",
                                                    "SELECT * FROM digitaltwins"))
              /\ mrem' = src.twins
              /\ mpc' = "twins_next"
         ELSE /\ calls' = Append(calls, Call("target", "create_models", <<>>, models))
              /\ mpc' = "create_models"
              /\ UNCHANGED mrem
    /\ UNCHANGED <<models, mcur, merr, morder>>

\* Mutant: create_models is issued and the script moves on without waiting.
mutMigModelsDoneNoWait ==
    /\ mpc = "models_next"
    /\ mrem = {}
    /\ log' = Append(log, <<"Pushing models", Len(models)>>)
    /\ calls' = Append(Append(calls, Call("target", "create_models", <<>>, models)),
                       SourceCall("query_twins", "SELECT * FROM digitaltwins"))
    /\ mrem' = src.twins
    /\ mpc' = "twins_next"
    /\ UNCHANGED <<models, mcur, merr, morder>>

\* the pager is exhausted: print, then target_service_client.create_models(models)
MigModelsDone ==
    /\ mpc = "models_next"
    /\ mrem = {}
    /\ log' = Append(log, <<"Pushing models", Len(models)>>)
    /\ calls' = Append(calls, Call("target", "create_models", <<>>, models))
    /\ mpc' = "create_models"
    /\ UNCHANGED <<models, mrem, mcur, merr, morder>>

\* create_models returns; twins_query_result = source_service_client.query_twins(...)
MigCreateModelsOk ==
    /\ mpc = "create_models"
    /\ calls' = Append(Returned(calls, "ok"),
                       SourceCall("query_twins", "SELECT * FROM digitaltwins"))
    /\ mrem' = src.twins
    /\ mpc' = "twins_next"
    /\ UNCHANGED <<models, mcur, log, merr, morder>>

\* create_models raises
MigCreateModelsFail ==
    /\ mpc = "create_models"
    /\ \E k \in ErrKinds : MigAbort(k, "create_models", Returned(calls, k))
    /\ UNCHANGED <<models, mrem, mcur, morder>>

\* target_service_client.upsert_digital_twin(twin["$dtId"], twin)
UpsertTwinCall(twin) ==
    Call("target", "upsert_digital_twin", <<twin.dtId>>, twin)

\* for twin in twins_query_result: the pager yields; print; issue the upsert
MigTwinsYield ==
    /\ mpc = "twins_next"
    /\ \E twin \in mrem :
        /\ mrem' = mrem \ {twin}
        /\ mcur' = twin
        /\ log' = Append(log, <<"Pushing twin", twin.dtId>>)
        /\ calls' = Append(calls, UpsertTwinCall(twin))
        /\ morder' = [morder EXCEPT !.twins = Append(@, twin)]
    /\ mpc' = "upsert_twin"
    /\ UNCHANGED <<models, merr>>

\* Mutant: the twin loop has a handler of its own and the script goes on.
mutMigTwinsFail ==
    /\ mpc = "twins_next"
    /\ \E k \in ErrKinds : merr' = [kind |-> k, at |-> "query_twins"]
    /\ calls' = Append(calls, SourceCall("query_twins", "SELECT * FROM relationships"))
    /\ mrem' = src.rels
    /\ mpc' = "rels_next"
    /\ UNCHANGED <<models, mcur, log, morder>>

MigTwinsFail ==
    /\ mpc = "twins_next"
    /\ \E k \in ErrKinds : MigAbort(k, "query_twins", calls)
    /\ UNCHANGED <<models, mrem, mcur, morder>>

\* the twin pager is exhausted;
\* relationships_query_result = source_service_client.query_twins(...)
MigTwinsDone ==
    /\ mpc = "twins_next"
    /\ mrem = {}
    /\ calls' = Append(calls, SourceCall("query_twins", "SELECT * FROM relationships"))
    /\ mrem' = src.rels
    /\ mpc' = "rels_next"
    /\ UNCHANGED <<models, mcur, log, merr, morder>>

MigUpsertTwinOk ==
    /\ mpc = "upsert_twin"
    /\ calls' = Returned(calls, "ok")
    /\ mpc' = "twins_next"
    /\ UNCHANGED <<models, mrem, mcur, log, merr, morder>>

\* Mutant: no handler around the upsert of a twin.
mutMigUpsertTwinFail ==
    /\ mpc = "upsert_twin"
    /\ \E k \in ErrKinds : MigAbort(k, "upsert_digital_twin", Returned(calls, k))
    /\ UNCHANGED <<models, mrem, mcur, morder>>

\* upsert_digital_twin raises: the handler of the item prints and the loop
\* goes on, or the exception leaves the loop.
MigUpsertTwinFail ==
    /\ mpc = "upsert_twin"
    /\ \E k \in ErrKinds :
        IF ItemExcept(k)
          THEN /\ calls' = Returned(calls, k)
               /\ log' = Append(log, <<"Error pushing twin", mcur.dtId>>)
               /\ mpc' = "twins_next"
               /\ UNCHANGED merr
          ELSE MigAbort(k, "upsert_digital_twin", Returned(calls, k))
    /\ UNCHANGED <<models, mrem, mcur, morder>>

\* Mutant: the relationship is keyed by its target twin.
mutUpsertRelCall(rel) ==
    Call("target", "upsert_relationship", <<rel.targetId, rel.relationshipId>>, rel)
\* target_service_client.upsert_relationship(rel["$sourceId"], rel["$relationshipId"], rel)
UpsertRelCall(rel) ==
    Call("target", "upsert_relationship", <<rel.sourceId, rel.relationshipId>>, rel)

MigRelsYield ==
    /\ mpc = "rels_next"
    /\ \E rel \in mrem :
        /\ mrem' = mrem \ {rel}
        /\ mcur' = rel
        /\ log' = Append(log, <<"Pushing rel", rel.sourceId, rel.targetId,
                                rel.relationshipId>>)
        /\ calls' = Append(calls, UpsertRelCall(rel))
        /\ morder' = [morder EXCEPT !.rels = Append(@, rel)]
    /\ mpc' = "upsert_rel"
    /\ UNCHANGED <<models, merr>>

MigRelsFail ==
    /\ mpc = "rels_next"
    /\ \E k \in ErrKinds : MigAbort(k, "query_relationships", calls)
    /\ UNCHANGED <<models, mrem, mcur, morder>>

\* the relationship pager is exhausted: the script ends
MigRelsDone ==
    /\ mpc = "rels_next"
    /\ mrem = {}
    /\ mpc' = "done"
    /\ UNCHANGED <<models, mrem, mcur, calls, log, merr, morder>>

MigUpsertRelOk ==
    /\ mpc = "upsert_rel"
    /\ calls' = Returned(calls, "ok")
    /\ mpc' = "rels_next"
    /\ UNCHANGED <<models, mrem, mcur, log, merr, morder>>

MigUpsertRelFail ==
    /\ mpc = "upsert_rel"
    /\ \E k \in ErrKinds :
        IF ItemExcept(k)
          THEN /\ calls' = Returned(calls, k)
               /\ log' = Append(log, <<"Error pushing rel", mcur.sourceId,
                                       mcur.targetId, mcur.relationshipId>>)
               /\ mpc' = "rels_next"
               /\ UNCHANGED merr
          ELSE MigAbort(k, "upsert_relationship", Returned(calls, k))
    /\ UNCHANGED <<models, mrem, mcur, morder>>

\* A step of the migrator; the exporter is not run.
MigRun(step) ==
    /\ epc = "start" /\ ~rerun
    /\ step
    /\ UNCHANGED <<src, expVars>>

MigNext ==
    \/ MigRun(MigListModels)
    \/ MigRun(MigModelsYield)
    \/ MigRun(MigModelsFail)
    \/ MigRun(MigModelsDone)
    \/ MigRun(MigCreateModelsOk)
    \/ MigRun(MigCreateModelsFail)
    \/ MigRun(MigTwinsYield)
    \/ MigRun(MigTwinsFail)
    \/ MigRun(MigTwinsDone)
    \/ MigRun(MigUpsertTwinOk)
    \/ MigRun(MigUpsertTwinFail)
    \/ MigRun(MigRelsYield)
    \/ MigRun(MigRelsFail)
    \/ MigRun(MigRelsDone)
    \/ MigRun(MigUpsertRelOk)
    \/ MigRun(MigUpsertRelFail)

----------------------------------------------------------------------------
\* export_to_jsonld.py

\* json.dumps(v) + "\n": one line of text holding the encoding of v.
JsonDumps(v) == [json |-> v]

Marker(section) == [Section |-> section]
FileVersion == [fileVersion |-> "1.0.0"]

\* f.write(json.dumps(v) + "\n")
Write(f, v) == Append(f, JsonDumps(v))

\* Mutant: the file is opened in append mode.
mutOpenFile(content) == content
\* open("export.jsonld", "w", encoding="utf-8"): mode "w" truncates.
OpenFile(content) == <<>>

\* Positions inside the `with` block.
ExpBody ==
    {"write_header", "write_version",
     "models_next", "models_marker", "models_record",
     "twins_next", "twins_marker", "twins_record",
     "rels_next", "rels_marker", "rels_record"}

\* with open("export.jsonld", "w", encoding="utf-8") as f:
ExpOpen ==
    /\ epc = "start"
    /\ file' = OpenFile(file)
    /\ isOpen' = TRUE
    /\ opens' = opens + 1
    /\ epc' = "write_header"
    /\ UNCHANGED <<erem, ecur, closes, eorder, rerun, prevDone, prevOutput, prevOrder>>

\* f.write(json.dumps({"Section": "Header"}) + "\n")
ExpWriteHeader ==
    /\ epc = "write_header"
    /\ file' = Write(file, Marker("Header"))
    /\ epc' = "write_version"
    /\ UNCHANGED <<erem, ecur, isOpen, opens, closes, eorder, rerun,
                   prevDone, prevOutput, prevOrder>>

\* f.write(json.dumps({"fileVersion": "1.0.0"}) + "\n"); then the model pager
ExpWriteFileVersion ==
    /\ epc = "write_version"
    /\ file' = Write(file, FileVersion)
    /\ erem' = src.models
    /\ epc' = "models_next"
    /\ UNCHANGED <<ecur, isOpen, opens, closes, eorder, rerun,
                   prevDone, prevOutput, prevOrder>>

\* A pager yields the next item of a loop.
ExpYield(at, category, to) ==
    /\ epc = at
    /\ \E item \in erem :
        /\ erem' = erem \ {item}
        /\ ecur' = item
        /\ eorder' = [eorder EXCEPT ![category] = Append(@, item)]
    /\ epc' = to
    /\ UNCHANGED <<file, isOpen, opens, closes, rerun, prevDone, prevOutput, prevOrder>>

\* The write of the section marker that opens a loop body.
ExpWriteMarker(at, section, to) ==
    /\ epc = at
    /\ file' = Write(file, Marker(section))
    /\ epc' = to
    /\ UNCHANGED <<erem, ecur, isOpen, opens, closes, eorder, rerun,
                   prevDone, prevOutput, prevOrder>>

\* The write of the record that closes a loop body.
ExpWriteRecord(at, v, to) ==
    /\ epc = at
    /\ file' = Write(file, v)
    /\ epc' = to
    /\ UNCHANGED <<erem, ecur, isOpen, opens, closes, eorder, rerun,
                   prevDone, prevOutput, prevOrder>>

\* A pager is exhausted and the next loop starts on its own pager.
ExpLoopDone(at, nextItems, to) ==
    /\ epc = at
    /\ erem = {}
    /\ erem' = nextItems
    /\ epc' = to
    /\ UNCHANGED <<ecur, file, isOpen, opens, closes, eorder, rerun,
                   prevDone, prevOutput, prevOrder>>

\* for model in source_client.list_models(include_model_definition=True):
ExpModelsYield == ExpYield("models_next", "models", "models_marker")
\* Mutant: the Models marker is not written before a model.
mutExpWriteModelsMarker ==
    /\ epc = "models_marker"
    /\ epc' = "models_record"
    /\ UNCHANGED <<erem, ecur, file, isOpen, opens, closes, eorder, rerun,
                   prevDone, prevOutput, prevOrder>>
ExpWriteModelsMarker == ExpWriteMarker("models_marker", "Models", "models_record")
ExpWriteModel == ExpWriteRecord("models_record", ecur.model, "models_next")
ExpModelsDone == ExpLoopDone("models_next", src.twins, "twins_next")

\* for twin in source_client.query_twins("SELECT * FROM digitaltwins"):
\* Mutant: a twin is written without its marker.
mutExpTwinsYield == ExpYield("twins_next", "twins", "twins_record")
ExpTwinsYield == ExpYield("twins_next", "twins", "twins_marker")
ExpWriteTwinsMarker == ExpWriteMarker("twins_marker", "Twins", "twins_record")
ExpWriteTwin == ExpWriteRecord("twins_record", ecur, "twins_next")
ExpTwinsDone == ExpLoopDone("twins_next", src.rels, "rels_next")

\* for rel in source_client.query_twins("SELECT * FROM relationships"):
ExpRelsYield == ExpYield("rels_next", "rels", "rels_marker")
ExpWriteRelsMarker == ExpWriteMarker("rels_marker", "Relationships", "rels_record")
ExpWriteRel == ExpWriteRecord("rels_record", ecur, "rels_next")

\* Leaving the `with` block, normally or by an exception, closes f.
ExpClose(status) ==
    /\ isOpen' = FALSE
    /\ closes' = closes + 1
    /\ epc' = status

\* the relationship pager is exhausted: the `with` block ends
ExpRelsDone ==
    /\ epc = "rels_next"
    /\ erem = {}
    /\ ExpClose("done")
    /\ UNCHANGED <<erem, ecur, file, opens, eorder, rerun, prevDone, prevOutput, prevOrder>>

\* Mutant: the file is not closed when an exception leaves the script.
mutExpFail ==
    /\ epc \in ExpBody
    /\ epc' = "failed"
    /\ UNCHANGED <<erem, ecur, file, isOpen, opens, closes, eorder, rerun,
                   prevDone, prevOutput, prevOrder>>

\* A write or a pager raises: nothing handles it, the `with` block is left
\* and the script ends with the exception.
ExpFail ==
    /\ epc \in ExpBody
    /\ ExpClose("failed")
    /\ UNCHANGED <<erem, ecur, file, opens, eorder, rerun, prevDone, prevOutput, prevOrder>>

\* The script is run again against the unchanged source; export.jsonld is
\* what the previous run left on disk.
ExpRerun ==
    /\ epc \in {"done", "failed"}
    /\ ~rerun
    /\ rerun' = TRUE
    /\ prevDone' = (epc = "done")
    /\ prevOutput' = IF epc = "done" THEN file ELSE <<>>
    /\ prevOrder' = IF epc = "done" THEN eorder ELSE EmptyOrder
    /\ epc' = "start"
    /\ erem' = {}
    /\ ecur' = NoItem
    /\ opens' = 0
    /\ closes' = 0
    /\ eorder' = EmptyOrder
    /\ UNCHANGED <<file, isOpen>>

\* A step of the exporter; the migrator is not run.
ExpRun(step) ==
    /\ mpc = "start"
    /\ step
    /\ UNCHANGED <<src, migVars>>

\* The steps of one run.
ExpNext ==
    \/ ExpRun(ExpOpen)
    \/ ExpRun(ExpWriteHeader)
    \/ ExpRun(ExpWriteFileVersion)
    \/ ExpRun(ExpModelsYield)
    \/ ExpRun(ExpWriteModelsMarker)
    \/ ExpRun(ExpWriteModel)
    \/ ExpRun(ExpModelsDone)
    \/ ExpRun(ExpTwinsYield)
    \/ ExpRun(ExpWriteTwinsMarker)
    \/ ExpRun(ExpWriteTwin)
    \/ ExpRun(ExpTwinsDone)
    \/ ExpRun(ExpRelsYield)
    \/ ExpRun(ExpWriteRelsMarker)
    \/ ExpRun(ExpWriteRel)
    \/ ExpRun(ExpRelsDone)
    \/ ExpRun(ExpFail)

----------------------------------------------------------------------------
\* The system

Init ==
    /\ \E nm \in 0..MaxModels, nt \in 0..MaxTwins, nr \in 0..MaxRels :
        /\ (nr > 0 => nt > 0)
        /\ src = Source(nm, nt, nr)
    /\ mpc = "start"
    /\ models = <<>>
    /\ mrem = {}
    /\ mcur = NoItem
    /\ calls = <<>>
    /\ log = <<>>
    /\ merr = NoErr
    /\ morder = EmptyOrder
    /\ epc = "start"
    /\ erem = {}
    /\ ecur = NoItem
    /\ file = <<>>
    /\ isOpen = FALSE
    /\ opens = 0
    /\ closes = 0
    /\ eorder = EmptyOrder
    /\ rerun = FALSE
    /\ prevDone = FALSE
    /\ prevOutput = <<>>
    /\ prevOrder = EmptyOrder

\* One of the two scripts is run, once.
Next == MigNext \/ ExpNext

Spec == Init /\ [][Next]_vars

\* The exporter is run, and then run again.
NextRerun == ExpNext \/ ExpRun(ExpRerun)

SpecRerun == Init /\ [][NextRerun]_vars

----------------------------------------------------------------------------
\* Properties of copy_adt.py

MigAborted == {"caught", "unhandled"}
MigEnded == {"done", "caught", "unhandled"}

\* The calls made to the target with operation op, in order.
CallsOf(op) == SelectSeq(calls, LAMBDA c : c.svc = "target" /\ c.op = op)
CreateCalls == CallsOf("create_models")
TwinCalls == CallsOf("upsert_digital_twin")
RelCalls == CallsOf("upsert_relationship")

IsTarget(c, op) == c.svc = "target" /\ c.op = op
IsRelQuery(c) == c.svc = "source" /\ c.arg = "SELECT * FROM relationships"

Items(s) == {s[i] : i \in DOMAIN s}
Distinct(s) == \A i, j \in DOMAIN s : i # j => s[i] # s[j]

\* The run has moved past the model stage / the twin stage.
PastModels ==
    \/ mpc \in {"create_models", "twins_next", "upsert_twin",
                "rels_next", "upsert_rel", "done"}
    \/ mpc \in MigAborted /\ merr.at # "list_models"
PastTwins ==
    \/ mpc \in {"rels_next", "upsert_rel", "done"}
    \/ mpc \in MigAborted /\ merr.at \in {"query_relationships", "upsert_relationship"}

\* C1: whatever set of models the source enumerates (none, one, several), the
\* target gets at most one create_models call, exactly one once the
\* enumeration has ended normally; it is issued when the enumeration is
\* drained and carries each enumerated model once, in enumeration order.
C1_SingleBatchCreate ==
    /\ Len(CreateCalls) <= 1
    /\ PastModels => Len(CreateCalls) = 1
    /\ Len(CreateCalls) = 1 =>
        /\ Items(morder.models) = src.models
        /\ Len(morder.models) = Cardinality(src.models)
        /\ CreateCalls[1].arg = [i \in DOMAIN morder.models |-> morder.models[i].model]

C1_Witness ==
    /\ mpc = "done"
    /\ Cardinality(src.models) = 2
    /\ Len(CreateCalls) = 1
    /\ Len(CreateCalls[1].arg) = 2

\* One upsert_digital_twin call per twin the pager yielded, in that order,
\* keyed by the twin's $dtId, no twin twice; every twin once the loop ends.
TwinCallsFollowEnumeration ==
    /\ Len(TwinCalls) = Len(morder.twins)
    /\ \A i \in DOMAIN TwinCalls :
        /\ TwinCalls[i].key = <<morder.twins[i].dtId>>
        /\ TwinCalls[i].arg = morder.twins[i]
    /\ Distinct(morder.twins)
    /\ Items(morder.twins) \subseteq src.twins
    /\ PastTwins => Items(morder.twins) = src.twins

\* The error lines printed for twins are those of the upserts that raised
\* HttpResponseError, in order, each naming its twin.
TwinErrorsLogged ==
    LET failed == SelectSeq(TwinCalls, LAMBDA c : c.result = "HttpResponseError")
    IN  SelectSeq(log, LAMBDA l : l[1] = "Error pushing twin")
          = [i \in DOMAIN failed |-> <<"Error pushing twin", failed[i].key[1]>>]

\* After an upsert that returned or was caught, the loop is back at the pager
\* and the upsert of the next twin can be issued.
TwinLoopGoesOn ==
    /\ (calls # <<>> /\ IsTarget(calls[Len(calls)], "upsert_digital_twin")
          /\ calls[Len(calls)].result \in {"ok", "HttpResponseError"})
        => (mpc = "twins_next" \/ (mpc \in MigAborted /\ merr.at = "query_twins"))
    /\ (mpc = "twins_next" /\ mrem # {}) => ENABLED MigTwinsYield

\* C2 (amended): one upsert per enumerated twin, in order, keyed by $dtId,
\* never retried; an upsert failure raised as HttpResponseError is logged,
\* does not end the run and does not stop the upsert of the next twin.
C2_TwinUpsertsTolerateServiceErrors ==
    /\ TwinCallsFollowEnumeration
    /\ TwinErrorsLogged
    /\ TwinLoopGoesOn
    /\ ~(mpc \in MigAborted /\ merr.at = "upsert_digital_twin"
          /\ merr.kind = "HttpResponseError")

\* C2 as stated: no failure of a twin upsert ever ends the run.
C2_AnyTwinFailureTolerated ==
    /\ TwinCallsFollowEnumeration
    /\ ~(mpc \in MigAborted /\ merr.at = "upsert_digital_twin")

\* One twin failed with a service error, the other succeeded, the run completed.
C2_Witness ==
    /\ mpc = "done"
    /\ Len(TwinCalls) = 2
    /\ \E i, j \in DOMAIN TwinCalls :
        /\ TwinCalls[i].result = "HttpResponseError"
        /\ TwinCalls[j].result = "ok"
    /\ Len(SelectSeq(log, LAMBDA l : l[1] = "Error pushing twin")) = 1

RelCallsFollowEnumeration ==
    /\ Len(RelCalls) = Len(morder.rels)
    /\ \A i \in DOMAIN RelCalls :
        /\ RelCalls[i].key = <<morder.rels[i].sourceId, morder.rels[i].relationshipId>>
        /\ RelCalls[i].arg = morder.rels[i]
    /\ Distinct(morder.rels)
    /\ Items(morder.rels) \subseteq src.rels
    /\ mpc = "done" => Items(morder.rels) = src.rels

RelErrorsLogged ==
    LET failed == SelectSeq(RelCalls, LAMBDA c : c.result = "HttpResponseError")
    IN  SelectSeq(log, LAMBDA l : l[1] = "Error pushing rel")
          = [i \in DOMAIN failed |->
               <<"Error pushing rel", failed[i].arg.sourceId,
                 failed[i].arg.targetId, failed[i].arg.relationshipId>>]

RelLoopGoesOn ==
    /\ (calls # <<>> /\ IsTarget(calls[Len(calls)], "upsert_relationship")
          /\ calls[Len(calls)].result \in {"ok", "HttpResponseError"})
        => (mpc \in {"rels_next", "done"}
              \/ (mpc \in MigAborted /\ merr.at = "query_relationships"))
    /\ (mpc = "rels_next" /\ mrem # {}) => ENABLED MigRelsYield

\* C3 (amended): one upsert per enumerated relationship, in order, keyed by
\* ($sourceId, $relationshipId); an upsert failure raised as
\* HttpResponseError is caught and logged with source, target and
\* relationship id, does not end the run and does not stop the next upsert.
C3_RelUpsertsTolerateServiceErrors ==
    /\ RelCallsFollowEnumeration
    /\ RelErrorsLogged
    /\ RelLoopGoesOn
    /\ ~(mpc \in MigAborted /\ merr.at = "upsert_relationship"
          /\ merr.kind = "HttpResponseError")

\* C3 as stated: no failure of a relationship upsert ever ends the run.
C3_AnyRelFailureTolerated ==
    /\ RelCallsFollowEnumeration
    /\ ~(mpc \in MigAborted /\ merr.at = "upsert_relationship")

C3_Witness ==
    /\ mpc = "done"
    /\ Len(RelCalls) = 2
    /\ RelCalls[1].result = "HttpResponseError"
    /\ RelCalls[2].result = "ok"
    /\ RelCalls[1].arg.sourceId # RelCalls[1].arg.targetId

\* C6: a failure of a source enumeration or of create_models ends the run
\* and nothing is issued afterwards: after a failed model enumeration the
\* target got no call; after a failed create_models no upsert; after a
\* failed twin enumeration no upsert beyond the twins already yielded (none
\* if none was yielded), no relationship query and no relationship upsert.
C6_FatalFailureAborts ==
    /\ (merr # NoErr) <=> (mpc \in MigAborted)
    /\ mpc \in MigEnded => ~ENABLED MigNext
    /\ merr.at = "list_models" =>
         \A i \in DOMAIN calls : calls[i].svc # "target"
    /\ merr.at = "create_models" =>
         /\ TwinCalls = <<>> /\ RelCalls = <<>>
         /\ \A i \in DOMAIN calls : i <= 2
    /\ merr.at = "query_twins" =>
         /\ Len(TwinCalls) = Len(morder.twins)
         /\ RelCalls = <<>>
         /\ \A i \in DOMAIN calls : ~IsRelQuery(calls[i])
    /\ merr.at = "query_relationships" => Len(RelCalls) = Len(morder.rels)

\* The twin enumeration failed before it yielded anything, in a source that
\* has twins and relationships.
C6_Witness ==
    /\ mpc \in MigAborted
    /\ merr.at = "query_twins"
    /\ morder.twins = <<>>
    /\ src.twins # {}
    /\ src.rels # {}
    /\ TwinCalls = <<>>

Stage(op) ==
    CASE op = "create_models" -> 1
      [] op = "upsert_digital_twin" -> 2
      [] op = "upsert_relationship" -> 3

\* C10: target calls come stage by stage; create_models has returned
\* successfully before any upsert is issued; every twin upsert precedes the
\* relationship query, which precedes every relationship upsert; only the
\* last call made can still be outstanding.
C10_StagesInOrder ==
    /\ \A i, j \in DOMAIN calls :
         (i < j /\ calls[i].svc = "target" /\ calls[j].svc = "target")
           => Stage(calls[i].op) <= Stage(calls[j].op)
    /\ \A j \in DOMAIN calls :
         (IsTarget(calls[j], "upsert_digital_twin")
            \/ IsTarget(calls[j], "upsert_relationship"))
           => \E i \in 1..(j - 1) :
                IsTarget(calls[i], "create_models") /\ calls[i].result = "ok"
    /\ \A i, j \in DOMAIN calls :
         (IsTarget(calls[i], "upsert_digital_twin") /\ IsRelQuery(calls[j])) => i < j
    /\ \A j \in DOMAIN calls :
         IsTarget(calls[j], "upsert_relationship")
           => \E i \in 1..(j - 1) : IsRelQuery(calls[i])
    /\ \A i \in DOMAIN calls : calls[i].result = "pending" => i = Len(calls)

C10_Witness ==
    /\ mpc = "done"
    /\ Len(TwinCalls) = 2
    /\ Len(RelCalls) = 2

----------------------------------------------------------------------------
\* Properties of export_to_jsonld.py

ExpEnded == {"done", "failed"}

IsModelRecord(l) == "dtmi" \in DOMAIN l.json
IsTwinRecord(l) == "dtId" \in DOMAIN l.json
IsRelRecord(l) == "relationshipId" \in DOMAIN l.json
IsRecord(l) == IsModelRecord(l) \/ IsTwinRecord(l) \/ IsRelRecord(l)

SectionOf(l) ==
    CASE IsModelRecord(l) -> "Models"
      [] IsTwinRecord(l) -> "Twins"
      [] IsRelRecord(l) -> "Relationships"

Rank(l) ==
    CASE IsModelRecord(l) -> 1
      [] IsTwinRecord(l) -> 2
      [] IsRelRecord(l) -> 3

\* C4: at every point of a run, line 1 (if written) is the Header marker,
\* line 2 (if written) the fileVersion record, every model, twin or
\* relationship record directly follows the marker of its own section, and
\* model records precede twin records, which precede relationship records.
C4_LineOrder ==
    /\ Len(file) >= 1 => file[1] = JsonDumps(Marker("Header"))
    /\ Len(file) >= 2 => file[2] = JsonDumps(FileVersion)
    /\ \A i \in DOMAIN file :
         IsRecord(file[i]) =>
           /\ i > 2
           /\ file[i - 1] = JsonDumps(Marker(SectionOf(file[i])))
    /\ LET records == SelectSeq(file, IsRecord)
       IN  \A k \in 1..(Len(records) - 1) : Rank(records[k]) <= Rank(records[k + 1])

C4_Witness ==
    /\ isOpen
    /\ \E i, j, k \in DOMAIN file :
         IsModelRecord(file[i]) /\ IsTwinRecord(file[j]) /\ IsRelRecord(file[k])
    /\ Len(SelectSeq(file, IsTwinRecord)) = 2

\* The lines of one section: a marker before every record.
Block(section, vals) ==
    [i \in 1..(2 * Len(vals)) |->
        IF i % 2 = 1 THEN JsonDumps(Marker(section))
                     ELSE JsonDumps(vals[i \div 2])]

\* The file a run without failure writes for the items in the order o.
Expected(o) ==
    <<JsonDumps(Marker("Header")), JsonDumps(FileVersion)>>
      \o Block("Models", [i \in DOMAIN o.models |-> o.models[i].model])
      \o Block("Twins", o.twins)
      \o Block("Relationships", o.rels)

IsPrefix(s, t) == Len(s) <= Len(t) /\ s = SubSeq(t, 1, Len(s))

Covers(o) ==
    /\ Items(o.models) = src.models /\ Len(o.models) = Cardinality(src.models)
    /\ Items(o.twins) = src.twins /\ Len(o.twins) = Cardinality(src.twins)
    /\ Items(o.rels) = src.rels /\ Len(o.rels) = Cardinality(src.rels)

SourceSize ==
    Cardinality(src.models) + Cardinality(src.twins) + Cardinality(src.rels)

\* C9: a run opens the file once and closes it once, whether it completes or
\* a pager or a write fails; the file is open exactly inside the `with`
\* block; after the exit nothing more is written, and the file holds a
\* prefix of what the run would have written without the failure (all of it
\* if the run completed).
C9_ClosedOnEveryExit ==
    /\ opens <= 1
    /\ closes <= opens
    /\ isOpen <=> (epc \in ExpBody)
    /\ epc \in ExpEnded =>
         /\ opens = 1 /\ closes = 1
         /\ ~ENABLED ExpNext
         /\ IsPrefix(file, Expected(eorder))
    /\ epc = "done" => (file = Expected(eorder) /\ Covers(eorder))

\* A run failed after it had written records.
C9_Witness ==
    /\ epc = "failed"
    /\ closes = 1
    /\ ~isOpen
    /\ Len(file) >= 4
    /\ Len(file) < 2 + 2 * SourceSize

BothRunsComplete == rerun /\ prevDone /\ epc = "done"

\* C8 as stated: two complete runs leave identical files, whatever order
\* the service enumerates in on each run.
C8_IdenticalInAnyOrder == BothRunsComplete => file = prevOutput

\* C8 (amended): two complete runs against the unchanged source leave
\* identical files when the service enumerates every category in the same
\* order on both runs; in any case the second run replaces the file of the
\* first: both files have the same length.
C8_IdenticalInSameOrder ==
    /\ (BothRunsComplete /\ eorder = prevOrder) => file = prevOutput
    /\ BothRunsComplete => Len(file) = Len(prevOutput)

C8_Witness ==
    /\ BothRunsComplete
    /\ eorder = prevOrder
    /\ Len(file) >= 6
    /\ file = prevOutput

----------------------------------------------------------------------------
\* Scenarios over both scripts

MigCleanDone ==
    /\ mpc = "done"
    /\ \A i \in DOMAIN calls : calls[i].result = "ok"

ScenarioA ==
    /\ Cardinality(src.models) = 2
    /\ src.twins = {}
    /\ src.rels = {}

OneBatchWithAllModels ==
    /\ Len(CreateCalls) = 1
    /\ Len(CreateCalls[1].arg) = Cardinality(src.models)
    /\ Items(CreateCalls[1].arg) = {m.model : m \in src.models}
    /\ TwinCalls = <<>>
    /\ RelCalls = <<>>

\* C5 as stated: with 2 models and nothing else the export has 4 lines.
C5_ExportHasFourLines ==
    ScenarioA =>
      /\ MigCleanDone => OneBatchWithAllModels
      /\ epc = "done" => Len(file) = 4

\* C5 (amended): with 2 models, no twin and no relationship and no failure,
\* the migrator issues one create_models call carrying both models, and the
\* exported file has 6 lines: the 2 header lines, then a marker line and a
\* model line for each of the 2 models.
C5_ExportHasSixLines ==
    ScenarioA =>
      /\ MigCleanDone => OneBatchWithAllModels
      /\ epc = "done" =>
           /\ Len(file) = 6
           /\ file[3] = JsonDumps(Marker("Models")) /\ IsModelRecord(file[4])
           /\ file[5] = JsonDumps(Marker("Models")) /\ IsModelRecord(file[6])
           /\ file[4] # file[6]

C5_Witness ==
    /\ ScenarioA
    /\ epc = "done"
    /\ Len(file) = 6

ScenarioD ==
    /\ src.models = {}
    /\ src.twins = {}
    /\ src.rels = {}

\* C7: with an empty source and no failure the migrator issues exactly one
\* create_models call, with an empty list, and no upsert; the exporter
\* writes the Header marker and the fileVersion record and nothing else.
C7_EmptySource ==
    ScenarioD =>
      /\ MigCleanDone =>
           /\ Len(CreateCalls) = 1
           /\ CreateCalls[1].arg = <<>>
           /\ TwinCalls = <<>>
           /\ RelCalls = <<>>
      /\ epc = "done" =>
           file = <<JsonDumps(Marker("Header")), JsonDumps(FileVersion)>>

C7_Witness ==
    /\ ScenarioD
    /\ MigCleanDone
    /\ Len(CreateCalls) = 1
    /\ CreateCalls[1].arg = <<>>

====
